---- MODULE Spec2Model ----
(***************************************************************************)
(* arXivIt.py: the pipeline that prepares a LaTeX project folder for an    *)
(* arXiv submission.  The state is the directory tree on disk, the console *)
(* output, the archive next to the folder and the position of main().      *)
(* Text (file names, file contents) is a sequence of one-character strings *)
(* so that substring tests, regular expressions and splitext are computed  *)
(* character by character, as Python computes them.                        *)
(***************************************************************************)
EXTENDS Integers, Sequences, FiniteSets, TLC

VARIABLES fs, initial, pre, pc, last, err, out, archive

vars == <<fs, initial, pre, pc, last, err, out, archive>>

(***************************************************************************)
(* Bounds of the model.                                                    *)
(***************************************************************************)
\* how many entries besides main.tex the initial project folder holds
MaxEntries == 4

(***************************************************************************)
(* Characters and strings.                                                 *)
(***************************************************************************)
LowerLetters == <<"a","b","c","d","e","f","g","h","i","j","k","l","m",
                  "n","o","p","q","r","s","t","u","v","w","x","y","z">>
UpperLetters == <<"A","B","C","D","E","F","G","H","I","J","K","L","M",
                  "N","O","P","Q","R","S","T","U","V","W","X","Y","Z">>
Digits == <<"0","1","2","3","4","5","6","7","8","9">>

Range(s) == {s[i] : i \in 1..Len(s)}

\* str.lower() on one character
LowerChar(c) ==
    IF \E i \in 1..Len(UpperLetters) : UpperLetters[i] = c
    THEN LowerLetters[CHOOSE i \in 1..Len(UpperLetters) : UpperLetters[i] = c]
    ELSE c

\* str.lower()
Lower(s) == [i \in 1..Len(s) |-> LowerChar(s[i])]

\* `needle in text` on Python strings: a literal substring test
IsSubstring(needle, text) ==
    \E i \in 0..(Len(text) - Len(needle)) :
        \A j \in 1..Len(needle) : text[i + j] = needle[j]

\* str.startswith at an offset: text[i..] starts with prefix
StartsWithAt(text, i, prefix) ==
    /\ i + Len(prefix) - 1 <= Len(text)
    /\ \A j \in 1..Len(prefix) : text[i + j - 1] = prefix[j]

\* os.path.splitext(name)[1]: from the last period on, unless only periods
\* precede it (a leading-period name such as .gitignore has no extension)
splitext_ext(name) ==
    LET dots == {i \in 1..Len(name) : name[i] = "."}
    IN  IF dots = {} THEN <<>>
        ELSE LET d == CHOOSE i \in dots : \A k \in dots : k <= i
             IN  IF \E k \in 1..(d - 1) : name[k] # "."
                 THEN SubSeq(name, d, Len(name))
                 ELSE <<>>

\* os.path.splitext(name)[0]
splitext_root(name) == SubSeq(name, 1, Len(name) - Len(splitext_ext(name)))

VALID_TEX_EXTENSIONS ==
    { <<".","t","e","x">>, <<".","b","b","l">>, <<".","b","i","b">> }

VALID_FIGURE_EXTENSIONS ==
    { <<".","p","s">>, <<".","e","p","s">>, <<".","j","p","e","g">>,
      <<".","j","p","g">>, <<".","g","i","f">>, <<".","p","n","g">>,
      <<".","p","d","f">> }

\* the character class [a-zA-Z0-9_.-]
FilenameChars ==
    Range(LowerLetters) \cup Range(UpperLetters) \cup Range(Digits)
        \cup {"_", ".", "-"}

\* ARXIV_FILENAME_REGEX.match(name) for ^[a-zA-Z0-9_.-]+$ : in Python `$`
\* matches at the end of the string and also just before a newline that is
\* the last character of the string
ARXIV_FILENAME_REGEX(name) ==
    LET body == IF Len(name) > 0 /\ name[Len(name)] = "\n"
                THEN SubSeq(name, 1, Len(name) - 1)
                ELSE name
    IN  /\ Len(body) >= 1
        /\ \A i \in 1..Len(body) : body[i] \in FilenameChars

(***************************************************************************)
(* The directory tree.  A path is named by its path relative to the folder *)
(* given on the command line; ROOT is that folder.  Outside the folder the *)
(* disk holds one regular file (EXT_FILE), one directory (EXT_DIR) and     *)
(* nothing at MISSING; the program never writes there.                     *)
(***************************************************************************)
ROOT == "."

\* main_tex_path: main() assumes main.tex directly under the folder
MAIN_TEX == "main.tex"

Paths == { "main.tex", "main.bbl", "f.png", "a", "b", "a b", "c_nl",
           "s", "s/r.PNG", "s/.h", ".g", ".g/c" }

Outside == { "EXT_FILE", "EXT_DIR", "MISSING" }

\* the order in which os.scandir lists entries (os.walk keeps it)
ScanOrder == << "main.tex", "main.bbl", "f.png", "a", "b", "a b", "c_nl",
                "s", "s/r.PNG", "s/.h", ".g", ".g/c" >>

\* os.path.dirname
Parent(p) ==
    CASE p \in {"s/r.PNG", "s/.h"} -> "s"
      [] p = ".g/c"                -> ".g"
      [] OTHER                     -> ROOT

\* os.path.basename
NameOf(p) ==
    CASE p = "main.tex" -> <<"m","a","i","n",".","t","e","x">>
      [] p = "main.bbl" -> <<"m","a","i","n",".","b","b","l">>
      [] p = "f.png"    -> <<"f",".","p","n","g">>
      [] p = "a"        -> <<"a">>
      [] p = "b"        -> <<"b">>
      [] p = "a b"      -> <<"a"," ","b">>
      [] p = "c_nl"     -> <<"c","\n">>
      [] p = "s"        -> <<"s">>
      [] p = "s/r.PNG"  -> <<"r",".","P","N","G">>
      [] p = "s/.h"     -> <<".","h">>
      [] p = ".g"       -> <<".","g">>
      [] p = ".g/c"     -> <<"c">>

\* the path as text, relative to the folder
RelPath(p) ==
    IF Parent(p) = ROOT THEN NameOf(p)
    ELSE NameOf(Parent(p)) \o <<"/">> \o NameOf(p)

Absent  == [k |-> "none", c |-> <<>>, t |-> ""]
File(c) == [k |-> "file", c |-> c, t |-> ""]
Dir     == [k |-> "dir",  c |-> <<>>, t |-> ""]
Link(t) == [k |-> "link", c |-> <<>>, t |-> t]

ExtContent == <<"e">>

\* os.path.lexists
lexists(f, p) == p = ROOT \/ (p \in Paths /\ f[p].k # "none")

\* os.path.realpath followed by a stat: the physical entry a path leads to
\* (a path of the tree, EXT_FILE, EXT_DIR) or MISSING
RECURSIVE Resolve(_, _, _)
Resolve(f, p, fuel) ==
    IF p \in Outside \/ p = ROOT THEN p
    ELSE IF f[p].k = "none" THEN "MISSING"
    ELSE IF f[p].k = "link"
         THEN IF fuel = 0 THEN "MISSING" ELSE Resolve(f, f[p].t, fuel - 1)
    ELSE p

realpath(f, p) == Resolve(f, p, Cardinality(Paths))

\* os.path.exists (follows symbolic links)
exists(f, p) == realpath(f, p) # "MISSING"

\* os.path.islink
islink(f, p) == p \in Paths /\ f[p].k = "link"

\* os.path.isdir and DirEntry.is_dir() (both follow symbolic links)
isdir(f, p) ==
    LET r == realpath(f, p)
    IN  r \in {ROOT, "EXT_DIR"} \/ (r \in Paths /\ f[r].k = "dir")

\* is the path a regular file once links are followed
isfile(f, p) == exists(f, p) /\ ~isdir(f, p)

\* the bytes open(p).read() returns, for a path with isfile(f, p)
read(f, p) ==
    LET r == realpath(f, p)
    IN  IF r = "EXT_FILE" THEN ExtContent ELSE f[r].c

\* the paths under directory d, all levels
RECURSIVE IsUnder(_, _)
IsUnder(p, d) ==
    /\ p \in Paths
    /\ (Parent(p) = d \/ IsUnder(Parent(p), d))

\* what one os.walk step lists for directory d: (dirs, nondirs), in scandir
\* order; a symbolic link to a directory counts as a directory
walk_dirs(f, d) ==
    SelectSeq(ScanOrder, LAMBDA p : Parent(p) = d /\ lexists(f, p) /\ isdir(f, p))

walk_files(f, d) ==
    SelectSeq(ScanOrder, LAMBDA p : Parent(p) = d /\ lexists(f, p) /\ ~isdir(f, p))

\* os.walk descends into a listed directory unless it is a symbolic link, and
\* skips it silently when os.scandir fails (the directory is gone)
walk_descends(f, d) == lexists(f, d) /\ ~islink(f, d) /\ f[d].k = "dir"

(***************************************************************************)
(* The project folders the model starts from.                              *)
(***************************************************************************)
T_fig       == <<"f",".","p","n","g">>
T_bbl_fig   == <<"m","a","i","n",".","b","b","l"," ","f",".","p","n","g">>
T_input_a   == <<"\\","i","n","p","u","t","{","a","}">>
T_include_a == <<"\\","i","n","c","l","u","d","e","{","a","}">>
T_input_b   == <<"\\","i","n","p","u","t","{","b","}">>
T_include_b == <<"\\","i","n","c","l","u","d","e","{","b","}">>
T_bbl       == <<"m","a","i","n",".","b","b","l">>

Docs == { <<>>, T_fig, T_bbl_fig, T_input_a, T_include_a }

Options(p) ==
    CASE p = "main.tex" -> {Absent} \cup {File(d) : d \in Docs}
      [] p = "main.bbl" -> {Absent, File(<<"x">>)}
      [] p = "f.png"    -> {Absent, File(<<>>), File(<<"p">>), Link("s/r.PNG"),
                            Link("EXT_FILE"), Link("MISSING")}
      [] p = "a"        -> {Absent, File(T_include_b), File(T_input_b)}
      [] p = "b"        -> {Absent, File(T_bbl)}
      [] p = "a b"      -> {Absent, File(<<"x">>)}
      [] p = "c_nl"     -> {Absent, File(<<"x">>)}
      [] p = "s"        -> {Absent, Dir, Link("EXT_DIR"), Link(".g")}
      [] p = "s/r.PNG"  -> {Absent, File(<<"q">>)}
      [] p = "s/.h"     -> {Absent, File(<<"x">>)}
      [] p = ".g"       -> {Absent, Dir, Link("EXT_DIR")}
      [] p = ".g/c"     -> {Absent, File(<<"x">>)}

EmptyTree == [p \in Paths |-> Absent]

\* the trees over the paths ps that hold at most n entries besides main.tex
RECURSIVE TreesOver(_, _)
TreesOver(ps, n) ==
    IF ps = <<>> THEN {EmptyTree}
    ELSE LET p    == Head(ps)
             free == p = MAIN_TEX
             same == TreesOver(Tail(ps), n)
             less == IF n > 0 THEN TreesOver(Tail(ps), n - 1) ELSE {}
         IN  same \cup
             { [t EXCEPT ![p] = e] :
                   t \in (IF free THEN same ELSE less),
                   e \in Options(p) \ {Absent} }

\* an entry lies in a directory that exists (not in a link to one)
WellFormed(t) ==
    \A p \in Paths :
        t[p].k # "none" /\ Parent(p) # ROOT => t[Parent(p)].k = "dir"

InitTrees == {t \in TreesOver(ScanOrder, MaxEntries) : WellFormed(t)}

NoErr == [type |-> "none", arg |-> <<>>]
Raise(type, arg) == [type |-> type, arg |-> arg]

\* a line printed on the console
Msg(kind, p) == [kind |-> kind, path |-> p]

\* the state a function of the program runs on and returns: the tree, the
\* exception that ended it (NoErr when it returned) and the lines it printed
St(f, e, o) == [fs |-> f, err |-> e, out |-> o]

\* the non-directory entries os.walk(folder) yields, in walk order, from
\* directory d down (top-down: the files of d, then each listed directory)
RECURSIVE WalkFiles(_, _)
RECURSIVE WalkFilesOfDirs(_, _)
WalkFiles(f, d) == walk_files(f, d) \o WalkFilesOfDirs(f, walk_dirs(f, d))

WalkFilesOfDirs(f, ds) ==
    IF ds = <<>> THEN <<>>
    ELSE (IF walk_descends(f, Head(ds)) THEN WalkFiles(f, Head(ds)) ELSE <<>>)
             \o WalkFilesOfDirs(f, Tail(ds))

\* os.path.getsize raises when the path leads nowhere; a directory has a
\* positive size
getsize(f, p) ==
    IF isdir(f, p) THEN 4096 ELSE Len(read(f, p))

(***************************************************************************)
(* validate_sources_and_figures                                            *)
(***************************************************************************)
validate_file(st, p) ==
    LET ext == Lower(splitext_ext(NameOf(p)))
    IN  IF ext \in VALID_TEX_EXTENSIONS \cup VALID_FIGURE_EXTENSIONS
        THEN IF ~exists(st.fs, p)
             THEN St(st.fs, Raise("FileNotFoundError", p), st.out)
             ELSE IF ~(getsize(st.fs, p) > 0)
                  THEN St(st.fs, NoErr, st.out \cup {Msg("empty", p)})
                  ELSE st
        ELSE St(st.fs, NoErr, st.out \cup {Msg("invalid", p)})

RECURSIVE validate_each(_, _)
validate_each(st, files) ==
    IF files = <<>> \/ st.err # NoErr THEN st
    ELSE validate_each(validate_file(st, Head(files)), Tail(files))

validate_sources_and_figures(f) ==
    validate_each(St(f, NoErr, {}), WalkFiles(f, ROOT))

(***************************************************************************)
(* flatten_tex_file                                                        *)
(***************************************************************************)
InputPrefix   == <<"\\","i","n","p","u","t","{">>
IncludePrefix == <<"\\","i","n","c","l","u","d","e","{">>

\* os.path.join(folder, name): the path of the tree that the text names
path_join(name) ==
    IF name = <<>> THEN ROOT
    ELSE IF \E p \in Paths : RelPath(p) = name
         THEN CHOOSE p \in Paths : RelPath(p) = name
         ELSE "MISSING"

\* os.path.join(os.path.dirname(main_tex_path), include_file)
include_path(include_file) == path_join(include_file)

\* the replacement for one directive: [text, err, out]
replace_input_include(f, name) ==
    LET ip == include_path(name)
    IN  IF exists(f, ip)
        THEN IF isdir(f, ip)
             THEN [text |-> <<>>, err |-> Raise("IsADirectoryError", ip), out |-> {}]
             ELSE [text |-> read(f, ip), err |-> NoErr, out |-> {}]
        ELSE [text |-> <<>>, err |-> NoErr, out |-> {Msg("notfound", name)}]

\* where the match of prefix(.*?)\} that starts at i ends, 0 when there is
\* none: the first closing brace after the prefix, with no newline before it
match_end(text, i, prefix) ==
    LET from   == i + Len(prefix)
        closes == {j \in from..Len(text) : text[j] = "}"}
    IN  IF ~StartsWithAt(text, i, prefix) \/ closes = {} THEN 0
        ELSE LET j == CHOOSE c \in closes : \A k \in closes : c <= k
             IN  IF \E k \in from..(j - 1) : text[k] = "\n" THEN 0 ELSE j

\* re.sub(prefix(.*?)\}, replace_input_include, text) from position i on: one
\* left-to-right pass; the scan resumes after the match, never inside the
\* replacement
RECURSIVE re_sub(_, _, _, _)
re_sub(f, prefix, text, i) ==
    IF i > Len(text) THEN [text |-> <<>>, err |-> NoErr, out |-> {}]
    ELSE LET j == match_end(text, i, prefix)
         IN  IF j = 0
             THEN LET rest == re_sub(f, prefix, text, i + 1)
                  IN  [rest EXCEPT !.text = <<text[i]>> \o rest.text]
             ELSE LET r == replace_input_include(
                               f, SubSeq(text, i + Len(prefix), j - 1))
                  IN  IF r.err # NoErr THEN r
                      ELSE LET rest == re_sub(f, prefix, text, j + 1)
                           IN  [text |-> r.text \o rest.text,
                                err  |-> rest.err,
                                out  |-> r.out \cup rest.out]

\* the two substitutions of flatten_tex_file, one after the other
flatten_text(f, content) ==
    LET r1 == re_sub(f, InputPrefix, content, 1)
    IN  IF r1.err # NoErr THEN r1
        ELSE LET r2 == re_sub(f, IncludePrefix, r1.text, 1)
             IN  [r2 EXCEPT !.out = r1.out \cup r2.out]

flatten_tex_file(f, main_tex_path) ==
    IF ~exists(f, main_tex_path)
    THEN St(f, Raise("FileNotFoundError", main_tex_path), {})
    ELSE LET r == flatten_text(f, read(f, main_tex_path))
         IN  IF r.err # NoErr THEN St(f, r.err, r.out)
             ELSE St([f EXCEPT ![realpath(f, main_tex_path)].c = r.text],
                     NoErr, r.out)

(***************************************************************************)
(* check_filenames                                                         *)
(***************************************************************************)
RECURSIVE check_each(_, _)
check_each(st, files) ==
    IF files = <<>> \/ st.err # NoErr THEN st
    ELSE check_each(
             IF ~ARXIV_FILENAME_REGEX(NameOf(Head(files)))
             THEN St(st.fs, Raise("ValueError", NameOf(Head(files))),
                     st.out \cup {Msg("badname", Head(files))})
             ELSE st,
             Tail(files))

check_filenames(f) == check_each(St(f, NoErr, {}), WalkFiles(f, ROOT))

(***************************************************************************)
(* remove_unused_files                                                     *)
(***************************************************************************)
\* the first walk: the paths whose file name occurs in the document text
referenced_files(f, content) ==
    {p \in Range(WalkFiles(f, ROOT)) : IsSubstring(NameOf(p), content)}

\* the test of the second walk without its exemption of the top-level document
is_unused_no_exemption(p, referenced, main_tex_path) ==
    p \notin referenced

\* the test of the second walk
is_unused(p, referenced, main_tex_path) ==
    p \notin referenced /\ NameOf(p) # NameOf(main_tex_path)

RECURSIVE remove_each(_, _, _, _)
remove_each(st, files, referenced, main_tex_path) ==
    IF files = <<>> THEN st
    ELSE remove_each(
             IF is_unused(Head(files), referenced, main_tex_path)
             THEN St([st.fs EXCEPT ![Head(files)] = Absent], NoErr,
                     st.out \cup {Msg("unused", Head(files))})
             ELSE st,
             Tail(files), referenced, main_tex_path)

remove_unused_files(f, main_tex_path) ==
    IF ~exists(f, main_tex_path)
    THEN St(f, Raise("FileNotFoundError", main_tex_path), {})
    ELSE remove_each(St(f, NoErr, {}), WalkFiles(f, ROOT),
                     referenced_files(f, read(f, main_tex_path)),
                     main_tex_path)

(***************************************************************************)
(* replace_symlinks                                                        *)
(***************************************************************************)
\* os.unlink(file_path) then shutil.copy2(target_path, file_path): the link
\* is gone before the copy is tried
replace_link(st, p) ==
    LET target   == realpath(st.fs, p)
        unlinked == [st.fs EXCEPT ![p] = Absent]
        o        == st.out \cup {Msg("symlink", p)}
    IN  IF target = "MISSING"
        THEN St(unlinked, Raise("FileNotFoundError", p), o)
        ELSE St([st.fs EXCEPT ![p] = File(read(st.fs, p))], NoErr, o)

RECURSIVE replace_each(_, _)
replace_each(st, files) ==
    IF files = <<>> \/ st.err # NoErr THEN st
    ELSE replace_each(
             IF islink(st.fs, Head(files)) THEN replace_link(st, Head(files))
             ELSE st,
             Tail(files))

replace_symlinks(f) == replace_each(St(f, NoErr, {}), WalkFiles(f, ROOT))

(***************************************************************************)
(* remove_hidden_files                                                     *)
(***************************************************************************)
\* str.startswith(".")
is_hidden(p) == Len(NameOf(p)) > 0 /\ NameOf(p)[1] = "."

\* shutil.rmtree: refuses a symbolic link, else removes the whole subtree
rmtree(st, d) ==
    IF islink(st.fs, d)
    THEN St(st.fs, Raise("OSError", d), st.out \cup {Msg("hiddendir", d)})
    ELSE St([p \in Paths |->
                IF p = d \/ IsUnder(p, d) THEN Absent ELSE st.fs[p]],
            NoErr, st.out \cup {Msg("hiddendir", d)})

RECURSIVE hidden_files_loop(_, _)
hidden_files_loop(st, files) ==
    IF files = <<>> THEN st
    ELSE hidden_files_loop(
             IF is_hidden(Head(files))
             THEN St([st.fs EXCEPT ![Head(files)] = Absent], NoErr,
                     st.out \cup {Msg("hiddenfile", Head(files))})
             ELSE st,
             Tail(files))

RECURSIVE hidden_dirs_loop(_, _)
hidden_dirs_loop(st, dirs) ==
    IF dirs = <<>> \/ st.err # NoErr THEN st
    ELSE hidden_dirs_loop(
             IF is_hidden(Head(dirs)) THEN rmtree(st, Head(dirs)) ELSE st,
             Tail(dirs))

\* os.walk top-down with the loop body run at each directory: the listing of
\* d is taken when the walk reaches d, the body runs, and only then does the
\* walk try to enter each directory it listed (one the body removed is
\* skipped: os.scandir fails and os.walk ignores the error)
RECURSIVE hidden_walk(_, _)
RECURSIVE hidden_descend(_, _)
hidden_walk(st, d) ==
    LET files == walk_files(st.fs, d)
        dirs  == walk_dirs(st.fs, d)
        body  == hidden_dirs_loop(hidden_files_loop(st, files), dirs)
    IN  hidden_descend(body, dirs)

hidden_descend(st, dirs) ==
    IF dirs = <<>> \/ st.err # NoErr THEN st
    ELSE hidden_descend(
             IF walk_descends(st.fs, Head(dirs)) THEN hidden_walk(st, Head(dirs))
             ELSE st,
             Tail(dirs))

remove_hidden_files(f) == hidden_walk(St(f, NoErr, {}), ROOT)

(***************************************************************************)
(* validate_bbl_file, create_tar_file                                      *)
(***************************************************************************)
\* os.path.join(folder, f"{main_tex_name}.bbl")
bbl_file(main_tex_path) ==
    path_join(splitext_root(NameOf(main_tex_path)) \o <<".","b","b","l">>)

\* validate_bbl_file that prints the error and returns instead of raising
validate_bbl_file_silent(f, main_tex_path) ==
    St(f, NoErr,
       IF ~exists(f, bbl_file(main_tex_path)) THEN {Msg("nobbl", "main.bbl")} ELSE {})

validate_bbl_file(f, main_tex_path) ==
    IF ~exists(f, bbl_file(main_tex_path))
    THEN St(f, Raise("FileNotFoundError", "main.bbl"), {Msg("nobbl", "main.bbl")})
    ELSE St(f, NoErr, {})

\* no archive has been written
NoArchive == [name |-> "", arcname |-> "", tree |-> EmptyTree]

\* the archive written next to the folder: its name and the tree it packs
create_tar_file(f) ==
    [name |-> "folder_arxiv.tar.gz", arcname |-> "folder", tree |-> f]

(***************************************************************************)
(* main(): the pipeline, one action per step.  pc names the step that runs *)
(* next; an exception leaves main() at once (pc = "raised").  `initial` is *)
(* the tree main() was started on and `pre` the tree before the last step. *)
(***************************************************************************)
Init ==
    /\ fs \in InitTrees
    /\ initial = fs
    /\ pre = fs
    /\ pc = "main"
    /\ last = "none"
    /\ err = NoErr
    /\ out = {}
    /\ archive = NoArchive

\* one step of main(): run a function, go on to the next step if it returned
Step(from, to, name, r) ==
    /\ pc = from
    /\ fs' = r.fs
    /\ pre' = fs
    /\ last' = name
    /\ err' = r.err
    /\ out' = out \cup r.out
    /\ pc' = IF r.err = NoErr THEN to ELSE "raised"
    /\ UNCHANGED <<initial, archive>>

\* lines 145-149: main.tex must exist
main_tex_check(f) ==
    IF ~exists(f, MAIN_TEX)
    THEN St(f, Raise("FileNotFoundError", MAIN_TEX), {})
    ELSE St(f, NoErr, {})

MainStart == Step("main", "validate", "main", main_tex_check(fs))

MainValidate ==
    Step("validate", "flatten", "validate_sources_and_figures",
         validate_sources_and_figures(fs))

MainFlatten ==
    Step("flatten", "check", "flatten_tex_file", flatten_tex_file(fs, MAIN_TEX))

MainCheck ==
    Step("check", "prune", "check_filenames", check_filenames(fs))

MainPrune ==
    Step("prune", "links", "remove_unused_files",
         remove_unused_files(fs, MAIN_TEX))

MainLinks ==
    Step("links", "hidden", "replace_symlinks", replace_symlinks(fs))

MainHidden ==
    Step("hidden", "bbl", "remove_hidden_files", remove_hidden_files(fs))

MainBbl ==
    Step("bbl", "tar", "validate_bbl_file", validate_bbl_file(fs, MAIN_TEX))

MainTar ==
    /\ pc = "tar"
    /\ archive' = create_tar_file(fs)
    /\ pre' = fs
    /\ last' = "create_tar_file"
    /\ pc' = "done"
    /\ UNCHANGED <<fs, initial, err, out>>

Next ==
    \/ MainStart
    \/ MainValidate
    \/ MainFlatten
    \/ MainCheck
    \/ MainPrune
    \/ MainLinks
    \/ MainHidden
    \/ MainBbl
    \/ MainTar

Spec == Init /\ [][Next]_vars

(***************************************************************************)
(* Each function called on its own on a project folder, as a test of the   *)
(* function would call it.                                                 *)
(***************************************************************************)
CallValidate ==
    Step("main", "returned", "validate_sources_and_figures",
         validate_sources_and_figures(fs))

CallFlatten ==
    Step("main", "returned", "flatten_tex_file", flatten_tex_file(fs, MAIN_TEX))

CallCheck ==
    Step("main", "returned", "check_filenames", check_filenames(fs))

CallPrune ==
    Step("main", "returned", "remove_unused_files",
         remove_unused_files(fs, MAIN_TEX))

CallLinks ==
    Step("main", "returned", "replace_symlinks", replace_symlinks(fs))

CallHidden ==
    Step("main", "returned", "remove_hidden_files", remove_hidden_files(fs))

CallBbl ==
    Step("main", "returned", "validate_bbl_file", validate_bbl_file(fs, MAIN_TEX))

NextCall ==
    \/ CallValidate
    \/ CallFlatten
    \/ CallCheck
    \/ CallPrune
    \/ CallLinks
    \/ CallHidden
    \/ CallBbl

SpecCalls == Init /\ [][NextCall]_vars

(***************************************************************************)
(* Vocabulary of the properties.                                           *)
(***************************************************************************)
\* the entries of a tree that are not directories: regular files and the
\* symbolic links that do not lead to a directory
TreeFiles(f) == {p \in Paths : lexists(f, p) /\ ~isdir(f, p)}

\* one or more characters, each an ASCII letter, digit, underscore, period
\* or hyphen
LegalName(name) ==
    Len(name) >= 1 /\ \A i \in 1..Len(name) : name[i] \in FilenameChars

\* the lowercase extension is in the source or the figure allow-list
AllowedExtension(p) ==
    Lower(splitext_ext(NameOf(p)))
        \in VALID_TEX_EXTENSIONS \cup VALID_FIGURE_EXTENSIONS

\* the \input{..} and \include{..} directives that occur in a text
Directives(text) ==
    { [prefix |-> pf, name |-> SubSeq(text, i + Len(pf), match_end(text, i, pf) - 1)] :
          <<pf, i>> \in { x \in {InputPrefix, IncludePrefix} \X (1..Len(text)) :
                              match_end(text, x[2], x[1]) # 0 } }

\* a directive as it is written
Verbatim(d) == d.prefix \o d.name \o <<"}">>

\* some directory above p is hidden
InHiddenDir(p) == \E d \in Paths : is_hidden(d) /\ IsUnder(p, d)

(***************************************************************************)
(* C1.  End to end: main() on a minimal valid project (main.tex without    *)
(* directives, main.bbl, one figure whose file name occurs in main.tex,    *)
(* nothing else) ends without an exception and writes one archive,         *)
(* <folder>_arxiv.tar.gz, that holds main.tex, main.bbl and the figure.    *)
(***************************************************************************)
MinimalValidProject(t) ==
    /\ t[MAIN_TEX].k = "file"
    /\ Directives(t[MAIN_TEX].c) = {}
    /\ t["main.bbl"].k = "file"
    /\ t["f.png"].k = "file"
    /\ IsSubstring(NameOf("f.png"), t[MAIN_TEX].c)
    /\ \A p \in Paths : t[p].k # "none" => p \in {MAIN_TEX, "main.bbl", "f.png"}

C1_EndToEnd ==
    MinimalValidProject(initial) =>
        /\ pc # "raised"
        /\ pc = "done" =>
              /\ archive.name = "folder_arxiv.tar.gz"
              /\ \A p \in {MAIN_TEX, "main.bbl", "f.png"} :
                     archive.tree[p].k = "file"

(***************************************************************************)
(* C2.  When main() completes, every remaining file has an extension of    *)
(* the source or figure allow-list and a name matching the arXiv pattern,  *)
(* is no symbolic link, is not hidden, and is the top-level document or    *)
(* has its name occurring in the document text; and main.bbl exists.       *)
(***************************************************************************)
C2_SuccessInvariant ==
    pc = "done" =>
        /\ \A p \in TreeFiles(fs) :
               /\ AllowedExtension(p)
               /\ ARXIV_FILENAME_REGEX(NameOf(p))
               /\ ~islink(fs, p)
               /\ ~is_hidden(p)
               /\ (p = MAIN_TEX \/ IsSubstring(NameOf(p), read(fs, MAIN_TEX)))
        /\ exists(fs, "main.bbl")

(***************************************************************************)
(* C3.  A fatal condition (main.tex absent at the start, a file name the   *)
(* Filename Checker rejects, main.bbl absent when the Bibliography         *)
(* Validator runs) stops main() at once: no later step can run, no archive *)
(* is written, and the tree is the one the steps before it left.           *)
(***************************************************************************)
FatalCondition ==
    \/ last = "main" /\ ~exists(pre, MAIN_TEX)
    \/ last = "check_filenames"
          /\ \E p \in TreeFiles(pre) : ~ARXIV_FILENAME_REGEX(NameOf(p))
    \/ last = "validate_bbl_file" /\ ~exists(pre, "main.bbl")

C4_OnePassFlatten ==
    (last = "flatten_tex_file" /\ err = NoErr) =>
        \A d \in Directives(read(pre, MAIN_TEX)) :
            isfile(pre, include_path(d.name)) =>
                \A e \in Directives(read(pre, include_path(d.name))) :
                    ~IsSubstring(Verbatim(e), read(pre, MAIN_TEX))
                        => IsSubstring(Verbatim(e), read(fs, MAIN_TEX))

(***************************************************************************)
(* C5.  check_filenames accepts a tree iff every file name consists only   *)
(* of ASCII letters, digits, underscore, period and hyphen; otherwise it   *)
(* raises naming the first offending name in walk order and prints no      *)
(* other; it changes nothing in the tree.                                  *)
(***************************************************************************)
FirstOffending(f) ==
    LET w   == WalkFiles(f, ROOT)
        bad == {i \in 1..Len(w) : ~LegalName(NameOf(w[i]))}
    IN  w[CHOOSE i \in bad : \A j \in bad : i <= j]

C5_FilenameChecker ==
    last = "check_filenames" =>
        /\ fs = pre
        /\ err = NoErr <=> \A p \in TreeFiles(pre) : LegalName(NameOf(p))
        /\ err # NoErr =>
               /\ err = Raise("ValueError", NameOf(FirstOffending(pre)))
               /\ out = {Msg("badname", FirstOffending(pre))}

(***************************************************************************)
(* C6.  After remove_unused_files a file that existed before is still      *)
(* there iff its name occurs in the document text or is the name of the    *)
(* top-level document; the files kept are untouched, the top-level         *)
(* document is kept and no directory is removed.                           *)
(***************************************************************************)
C6_Pruner ==
    last = "remove_unused_files" =>
        /\ err = NoErr <=> exists(pre, MAIN_TEX)
        /\ err = NoErr =>
              /\ \A p \in TreeFiles(pre) :
                     /\ lexists(fs, p) <=>
                            \/ IsSubstring(NameOf(p), read(pre, MAIN_TEX))
                            \/ NameOf(p) = NameOf(MAIN_TEX)
                     /\ lexists(fs, p) => fs[p] = pre[p]
              /\ lexists(fs, MAIN_TEX)
              /\ \A p \in Paths \ TreeFiles(pre) : fs[p] = pre[p]

\* a run that deleted a file, kept another because the text names it, and
\* kept a main.tex that the text does not name
C6_Witness ==
    /\ last = "remove_unused_files"
    /\ err = NoErr
    /\ \E p \in TreeFiles(pre) : ~lexists(fs, p)
    /\ \E p \in TreeFiles(pre) \ {MAIN_TEX} :
           lexists(fs, p) /\ IsSubstring(NameOf(p), read(pre, MAIN_TEX))
    /\ ~IsSubstring(NameOf(MAIN_TEX), read(pre, MAIN_TEX))
    /\ \E p \in Paths : pre[p].k = "dir" /\ fs[p].k = "dir"

(***************************************************************************)
(* C7.  After replace_symlinks every entry that was a symbolic link is a   *)
(* regular file at the same path holding what its resolved target held, no *)
(* symbolic link remains in the tree, and nothing else changed.            *)
(***************************************************************************)
C7_SymlinkNormalizer ==
    last = "replace_symlinks" =>
        /\ \A p \in Paths :
               islink(pre, p) =>
                   /\ isfile(pre, p)
                   /\ fs[p] = File(read(pre, p))
        /\ \A p \in Paths : ~islink(fs, p)
        /\ \A p \in Paths : ~islink(pre, p) => fs[p] = pre[p]

(***************************************************************************)
(* C8.  After remove_hidden_files nothing whose name begins with a period  *)
(* is left, nothing below a formerly hidden directory is left, every other *)
(* file is still there, and the function returned without an exception.    *)
(***************************************************************************)
C8_HiddenRemover ==
    last = "remove_hidden_files" =>
        /\ err = NoErr
        /\ \A p \in Paths : lexists(fs, p) => ~is_hidden(p) /\ ~InHiddenDir(p)
        /\ \A p \in TreeFiles(pre) :
               ~is_hidden(p) /\ ~InHiddenDir(p) => fs[p] = pre[p]

(***************************************************************************)
(* C9.  validate_sources_and_figures is advisory: on every tree (empty     *)
(* files, unrecognized extensions, symbolic links to nowhere) it raises    *)
(* nothing, changes nothing, and warns of an empty file for exactly the    *)
(* files with an allow-listed extension and size 0.                        *)
(***************************************************************************)
C9_ValidatorAdvisory ==
    last = "validate_sources_and_figures" =>
        /\ err = NoErr
        /\ fs = pre
        /\ {m.path : m \in {x \in out : x.kind = "empty"}}
               = {p \in TreeFiles(pre) :
                      /\ AllowedExtension(p)
                      /\ isfile(pre, p)
                      /\ Len(read(pre, p)) = 0}

(***************************************************************************)
(* C10.  Step order: a symbolic link of the project whose own name the     *)
(* document references and whose target was a regular file when main()     *)
(* started is, once the Symlink Normalizer has run, a regular file with    *)
(* the target's original content, and the step raised nothing.             *)
(***************************************************************************)
C10_PruneThenLinks ==
    last = "replace_symlinks" =>
        \A p \in Paths :
            ( /\ islink(initial, p)
              /\ isfile(initial, p)
              /\ IsSubstring(NameOf(p), read(pre, MAIN_TEX)) )
            => /\ err = NoErr
               /\ fs[p] = File(read(initial, p))

====
